---- MODULE Spec2Model ----
(***************************************************************************)
(* Model of converter_xlsx_to_csv.py: the cell normalisation pipeline      *)
(* (to_plain_string, trim_text), the output-name dialogue                  *)
(* (get_output_filename), the row loop (convert_xlsx_to_csv) and main.     *)
(*                                                                         *)
(* Text is a sequence of characters.  A character is a one-token string;   *)
(* the invisible ones carry the name of their code point:                  *)
(*   "NBSP" U+00A0, "ZWSP" U+200B, "ZWNJ" U+200C, "ZWJ" U+200D,            *)
(*   "BOM" U+FEFF, "TAB" U+0009, "LF" U+000A, "CR" U+000D.                 *)
(***************************************************************************)
EXTENDS Integers, Sequences, FiniteSets, TLC

VARIABLES
  cell, raw, cleaned, again, stage,
  pc, input_path, output_name, output_path, overwrite, confirm, another,
  files, sheet, content, rows_written, rows_count, reports, starts, opens,
  depth

cellVars == <<cell, raw, cleaned, again, stage>>
mainVars == <<pc, input_path, output_name, output_path, overwrite, confirm,
              another, files, sheet, content, rows_written, rows_count,
              reports, starts, opens, depth>>
vars == <<cellVars, mainVars>>

(***************************************************************************)
(* Bounds of the model.                                                    *)
(***************************************************************************)
MaxLen == 3
MaxDigits == 3
MaxExp == 18
MaxInt == 12
MaxPow == 6
MaxRows == 2
MaxCols == 1
MaxDepth == 1

(***************************************************************************)
(* Generic text helpers (Python str methods used by the program).          *)
(***************************************************************************)
Range(s) == {s[i] : i \in 1..Len(s)}

Text(S, n) == UNION {[1..k -> S] : k \in 0..n}

Zeros(n) == [i \in 1..n |-> "0"]

DigitChars == <<"0", "1", "2", "3", "4", "5", "6", "7", "8", "9">>

IsDigit(c) == c \in Range(DigitChars)

DigitVal(c) == (CHOOSE i \in 1..10 : DigitChars[i] = c) - 1

\* the index of the first character of s that is in S, 0 when there is none
Find(s, S) ==
  IF \E i \in 1..Len(s) : s[i] \in S
  THEN CHOOSE i \in 1..Len(s) : s[i] \in S /\ \A j \in 1..(i - 1) : s[j] \notin S
  ELSE 0

\* str.lower() on the letters the model uses
LowerChar(c) ==
  CASE c = "Y" -> "y" [] c = "E" -> "e" [] c = "S" -> "s" [] c = "C" -> "c"
    [] c = "V" -> "v" [] c = "N" -> "n" [] c = "O" -> "o" [] c = "A" -> "a"
    [] c = "I" -> "i" [] c = "F" -> "f" [] c = "T" -> "t" [] c = "R" -> "r"
    [] c = "U" -> "u" [] c = "L" -> "l" [] c = "X" -> "x" [] c = "B" -> "b"
    [] OTHER -> c

Lower(s) == [i \in 1..Len(s) |-> LowerChar(s[i])]

EndsWith(s, suffix) ==
  /\ Len(s) >= Len(suffix)
  /\ SubSeq(s, Len(s) - Len(suffix) + 1, Len(s)) = suffix

\* str.replace(old, new) for single characters
Replace(s, old, new) == [i \in 1..Len(s) |-> IF s[i] = old THEN new ELSE s[i]]

\* the characters str.strip() removes (str.isspace(): U+00A0 is one of them)
Whitespace == {" ", "TAB", "LF", "CR", "NBSP"}

\* str.rstrip(chars)
RStripSet(s, S) ==
  LET keep == {i \in 1..Len(s) : s[i] \notin S}
      last == IF keep = {} THEN 0 ELSE CHOOSE i \in keep : \A j \in keep : j <= i
  IN SubSeq(s, 1, last)

\* str.lstrip(chars)
LStripSet(s, S) ==
  LET keep == {i \in 1..Len(s) : s[i] \notin S}
      first == IF keep = {} THEN Len(s) + 1
               ELSE CHOOSE i \in keep : \A j \in keep : i <= j
  IN SubSeq(s, first, Len(s))

\* str.strip()
Strip(s) == LStripSet(RStripSet(s, Whitespace), Whitespace)

\* decimal digits of a natural number
RECURSIVE DigitsOf(_)
DigitsOf(n) ==
  IF n < 10 THEN <<DigitChars[n + 1]>>
  ELSE DigitsOf(n \div 10) \o <<DigitChars[(n % 10) + 1]>>

\* value of a sequence of decimal digits
RECURSIVE NatOf(_)
NatOf(s) ==
  IF s = <<>> THEN 0
  ELSE 10 * NatOf(SubSeq(s, 1, Len(s) - 1)) + DigitVal(s[Len(s)])

\* a natural number zero-padded to at least w digits
Pad(n, w) ==
  LET d == DigitsOf(n)
  IN IF Len(d) >= w THEN d ELSE Zeros(w - Len(d)) \o d

(***************************************************************************)
(* Configuration (module constants of the program).                        *)
(***************************************************************************)
DATE_FORMAT_DATETIME ==
  <<"%d", "/", "%m", "/", "%Y", ",", " ", "%H", ":", "%M", ":", "%S">>

DATE_FORMAT_DATE == <<"%d", "/", "%m", "/", "%Y">>

ZERO_WIDTH_RE == {"ZWSP", "ZWNJ", "ZWJ", "BOM"}

NBSP == "NBSP"

(***************************************************************************)
(* Cell values.  A cell is a record with its Python type, the is_date      *)
(* flag and the fields of the value.                                       *)
(*   float: the shortest round-trip decimal of the double, 0.d1d2..dn x    *)
(*          10^decpt, or nan / inf.                                        *)
(*   int:   the arbitrary-precision integer n x 10^e10.                    *)
(***************************************************************************)
\* isinstance(v, classes): bool is a subclass of int, datetime of date
Bases(t) ==
  CASE t = "bool" -> {"bool", "int"}
    [] t = "datetime" -> {"datetime", "date"}
    [] OTHER -> {t}

IsInstance(c, classes) == Bases(c.type) \cap classes # {}

\* datetime.strftime / date.strftime, one directive
Directive(v, d) ==
  CASE d = "%d" -> Pad(v.day, 2)
    [] d = "%m" -> Pad(v.month, 2)
    [] d = "%Y" -> Pad(v.year, 4)
    [] d = "%H" -> Pad(IF v.type = "datetime" THEN v.hour ELSE 0, 2)
    [] d = "%M" -> Pad(IF v.type = "datetime" THEN v.minute ELSE 0, 2)
    [] d = "%S" -> Pad(IF v.type = "datetime" THEN v.second ELSE 0, 2)
    [] OTHER -> <<d>>

RECURSIVE strftime(_, _)
strftime(v, fmt) ==
  IF fmt = <<>> THEN <<>>
  ELSE Directive(v, Head(fmt)) \o strftime(v, Tail(fmt))

\* repr of a float (float_repr_style 'short'): exponent form when
\* decpt <= -4 or decpt > 16, otherwise positional with at least ".0"
FloatStr(v) ==
  LET sign == IF v.neg THEN <<"-">> ELSE <<>>
      n == Len(v.digits)
      ds == [i \in 1..n |-> DigitChars[v.digits[i] + 1]]
      e == v.decpt - 1
  IN CASE v.kind = "nan" -> <<"n", "a", "n">>
       [] v.kind = "inf" -> sign \o <<"i", "n", "f">>
       [] OTHER ->
            sign \o
            ( IF v.decpt <= -4 \/ v.decpt > 16
              THEN <<ds[1]>>
                   \o (IF n > 1 THEN <<".">> \o SubSeq(ds, 2, n) ELSE <<>>)
                   \o <<"e", IF e < 0 THEN "-" ELSE "+">>
                   \o Pad(IF e < 0 THEN -e ELSE e, 2)
              ELSE IF v.decpt <= 0
              THEN <<"0", ".">> \o Zeros(-v.decpt) \o ds
              ELSE IF v.decpt < n
              THEN SubSeq(ds, 1, v.decpt) \o <<".">> \o SubSeq(ds, v.decpt + 1, n)
              ELSE ds \o Zeros(v.decpt - n) \o <<".", "0">> )

\* str(time) / the time part of str(datetime)
TimeStr(v) ==
  Pad(v.hour, 2) \o <<":">> \o Pad(v.minute, 2) \o <<":">> \o Pad(v.second, 2)
  \o (IF v.microsecond # 0 THEN <<".">> \o Pad(v.microsecond, 6) ELSE <<>>)

DateStr(v) ==
  Pad(v.year, 4) \o <<"-">> \o Pad(v.month, 2) \o <<"-">> \o Pad(v.day, 2)

\* str(v): the default textual conversion
str(v) ==
  CASE v.type = "str" -> v.s
    [] v.type = "bool" -> IF v.b THEN <<"T", "r", "u", "e">>
                          ELSE <<"F", "a", "l", "s", "e">>
    [] v.type = "int" -> IF v.n < 0 THEN <<"-">> \o DigitsOf(-v.n) \o Zeros(v.e10)
                         ELSE IF v.n = 0 THEN <<"0">>
                         ELSE DigitsOf(v.n) \o Zeros(v.e10)
    [] v.type = "float" -> FloatStr(v)
    [] v.type = "datetime" -> DateStr(v) \o <<" ">> \o TimeStr(v)
    [] v.type = "date" -> DateStr(v)
    [] v.type = "time" -> TimeStr(v)
    [] OTHER -> <<"N", "o", "n", "e">>

\* Decimal(s): sign, coefficient digits and exponent, or NaN / Infinity,
\* or InvalidOperation when s is no number
Decimal(s) ==
  LET signed == s # <<>> /\ s[1] \in {"-", "+"}
      neg == s # <<>> /\ s[1] = "-"
      body == IF signed THEN Tail(s) ELSE s
      epos == Find(body, {"e", "E"})
      mant == IF epos = 0 THEN body ELSE SubSeq(body, 1, epos - 1)
      expo == IF epos = 0 THEN <<>> ELSE SubSeq(body, epos + 1, Len(body))
      eneg == expo # <<>> /\ expo[1] = "-"
      edig == IF expo # <<>> /\ expo[1] \in {"-", "+"} THEN Tail(expo) ELSE expo
      dot == Find(mant, {"."})
      intpart == IF dot = 0 THEN mant ELSE SubSeq(mant, 1, dot - 1)
      frac == IF dot = 0 THEN <<>> ELSE SubSeq(mant, dot + 1, Len(mant))
      coeff == LStripSet(intpart \o frac, {"0"})
      valid == /\ Range(intpart) \cup Range(frac) \subseteq Range(DigitChars)
               /\ Len(intpart) + Len(frac) > 0
               /\ epos = 0 \/ (edig # <<>> /\ Range(edig) \subseteq Range(DigitChars))
  IN CASE Lower(body) = <<"n", "a", "n">> -> [kind |-> "NaN", neg |-> neg]
       [] Lower(body) \in {<<"i", "n", "f">>, <<"i", "n", "f", "i", "n", "i", "t", "y">>}
            -> [kind |-> "Infinity", neg |-> neg]
       [] OTHER ->
            IF ~valid THEN [kind |-> "InvalidOperation"]
            ELSE [kind |-> "finite", neg |-> neg,
                  int |-> IF coeff = <<>> THEN <<"0">> ELSE coeff,
                  exp |-> (IF eneg THEN -NatOf(edig) ELSE NatOf(edig)) - Len(frac)]

\* format(d, "f"): positional notation, never an exponent
format_f(d) ==
  LET sign == IF d.neg THEN <<"-">> ELSE <<>>
  IN CASE d.kind = "NaN" -> sign \o <<"N", "a", "N">>
       [] d.kind = "Infinity" -> sign \o <<"I", "n", "f", "i", "n", "i", "t", "y">>
       [] OTHER ->
            LET dotplace == d.exp + Len(d.int)
                intpart == IF dotplace < 0 THEN <<"0">>
                           ELSE IF dotplace > Len(d.int)
                           THEN d.int \o Zeros(dotplace - Len(d.int))
                           ELSE IF dotplace = 0 THEN <<"0">>
                           ELSE SubSeq(d.int, 1, dotplace)
                fracpart == IF dotplace < 0 THEN Zeros(-dotplace) \o d.int
                            ELSE IF dotplace > Len(d.int) THEN <<>>
                            ELSE SubSeq(d.int, dotplace + 1, Len(d.int))
            IN sign \o intpart
               \o (IF fracpart # <<>> THEN <<".">> \o fracpart ELSE <<>>)

(***************************************************************************)
(* to_plain_string: the cell normaliser.                                   *)
(***************************************************************************)
\* the numeric branch: Decimal(str(v)), format(d, "f"), strip the fraction's
\* trailing zeros; str(v) when Decimal raises InvalidOperation
plain_number(c) ==
  LET d == Decimal(str(c))
      fixed == format_f(d)
  IN IF d.kind = "InvalidOperation" THEN str(c)
     ELSE IF "." \in Range(fixed)
     THEN RStripSet(RStripSet(fixed, {"0"}), {"."})
     ELSE fixed

\* a slip: the boolean test placed after the numeric one
to_plain_string_bool_late(c) ==
  IF c.type = "NoneType" THEN <<>>
  ELSE IF c.is_date /\ IsInstance(c, {"datetime", "date"})
  THEN IF IsInstance(c, {"datetime"}) THEN strftime(c, DATE_FORMAT_DATETIME)
       ELSE strftime(c, DATE_FORMAT_DATE)
  ELSE IF IsInstance(c, {"str"}) THEN c.s
  ELSE IF IsInstance(c, {"int", "float"}) THEN plain_number(c)
  ELSE IF IsInstance(c, {"bool"})
  THEN (IF c.b THEN <<"T", "R", "U", "E">> ELSE <<"F", "A", "L", "S", "E">>)
  ELSE str(c)

\* a slip: date tested before datetime (every datetime is a date)
to_plain_string_date_first(c) ==
  IF c.type = "NoneType" THEN <<>>
  ELSE IF c.is_date /\ IsInstance(c, {"datetime", "date"})
  THEN IF IsInstance(c, {"date"}) THEN strftime(c, DATE_FORMAT_DATE)
       ELSE strftime(c, DATE_FORMAT_DATETIME)
  ELSE IF IsInstance(c, {"str"}) THEN c.s
  ELSE IF IsInstance(c, {"bool"})
  THEN (IF c.b THEN <<"T", "R", "U", "E">> ELSE <<"F", "A", "L", "S", "E">>)
  ELSE IF IsInstance(c, {"int", "float"}) THEN plain_number(c)
  ELSE str(c)

\* a slip: the fraction's zeros stripped whether or not there is a point
to_plain_string_strip_always(c) ==
  IF c.type = "NoneType" THEN <<>>
  ELSE IF c.is_date /\ IsInstance(c, {"datetime", "date"})
  THEN IF IsInstance(c, {"datetime"}) THEN strftime(c, DATE_FORMAT_DATETIME)
       ELSE strftime(c, DATE_FORMAT_DATE)
  ELSE IF IsInstance(c, {"str"}) THEN c.s
  ELSE IF IsInstance(c, {"bool"})
  THEN (IF c.b THEN <<"T", "R", "U", "E">> ELSE <<"F", "A", "L", "S", "E">>)
  ELSE IF IsInstance(c, {"int", "float"})
  THEN LET d == Decimal(str(c))
       IN IF d.kind = "InvalidOperation" THEN str(c)
          ELSE RStripSet(RStripSet(format_f(d), {"0"}), {"."})
  ELSE str(c)

\* a slip: the number rendered by str(v) alone
to_plain_string_str_number(c) ==
  IF c.type = "NoneType" THEN <<>>
  ELSE IF c.is_date /\ IsInstance(c, {"datetime", "date"})
  THEN IF IsInstance(c, {"datetime"}) THEN strftime(c, DATE_FORMAT_DATETIME)
       ELSE strftime(c, DATE_FORMAT_DATE)
  ELSE IF IsInstance(c, {"str"}) THEN c.s
  ELSE IF IsInstance(c, {"bool"})
  THEN (IF c.b THEN <<"T", "R", "U", "E">> ELSE <<"F", "A", "L", "S", "E">>)
  ELSE str(c)

to_plain_string(c) ==
  IF c.type = "NoneType" THEN <<>>
  ELSE IF c.is_date /\ IsInstance(c, {"datetime", "date"})
  THEN IF IsInstance(c, {"datetime"}) THEN strftime(c, DATE_FORMAT_DATETIME)
       ELSE strftime(c, DATE_FORMAT_DATE)
  ELSE IF IsInstance(c, {"str"}) THEN c.s
  ELSE IF IsInstance(c, {"bool"})
  THEN (IF c.b THEN <<"T", "R", "U", "E">> ELSE <<"F", "A", "L", "S", "E">>)
  ELSE IF IsInstance(c, {"int", "float"}) THEN plain_number(c)
  ELSE str(c)

(***************************************************************************)
(* trim_text: the text sanitiser.                                          *)
(***************************************************************************)
\* a slip: the strip done before the zero-width characters are removed
trim_text_strip_first(s) ==
  IF s = <<>> THEN <<>>
  ELSE SelectSeq(Strip(Replace(s, NBSP, " ")), LAMBDA ch : ch \notin ZERO_WIDTH_RE)

\* a slip: every whitespace character removed, not only the surrounding ones
trim_text_all_spaces(s) ==
  IF s = <<>> THEN <<>>
  ELSE SelectSeq(Replace(s, NBSP, " "),
                 LAMBDA ch : ch \notin ZERO_WIDTH_RE \cup Whitespace)

trim_text(s) ==
  IF s = <<>> THEN <<>>
  ELSE Strip(SelectSeq(Replace(s, NBSP, " "), LAMBDA ch : ch \notin ZERO_WIDTH_RE))

(***************************************************************************)
(* The cells the normaliser is applied to.                                 *)
(***************************************************************************)
Alphabet == {"a", " ", "TAB", "NBSP", "ZWSP", "ZWNJ", "ZWJ", "BOM"}

\* " <NBSP>hello<ZWSP> <NBSP>" and " Cafe<ZWSP> " (e acute as one token)
ExampleTexts ==
  { <<" ", "NBSP", "h", "e", "l", "l", "o", "ZWSP", " ", "NBSP">>,
    <<" ", "C", "a", "f", "EACUTE", "ZWSP", " ">>,
    <<"NBSP", "NBSP">>,
    <<"a", "NBSP", "ZWJ", "a", "LF">> }

TextValues == Text(Alphabet, MaxLen) \cup ExampleTexts

FloatDigits == {0, 1, 5}

\* digit strings of a shortest repr: no leading and no trailing zero
DigitStrings ==
  {ds \in UNION {[1..k -> FloatDigits] : k \in 1..MaxDigits} :
      ds[1] # 0 /\ ds[Len(ds)] # 0}
  \cup {<<3, 1, 4>>, <<5, 7, 9>>, <<1, 2, 3, 4, 5, 6, 7, 8, 9>>}

FloatValues ==
  {[kind |-> "finite", neg |-> sg, digits |-> ds, decpt |-> e] :
      sg \in BOOLEAN, ds \in DigitStrings, e \in (0 - MaxExp)..MaxExp}
  \cup {[kind |-> "finite", neg |-> sg, digits |-> <<0>>, decpt |-> 1] : sg \in BOOLEAN}
  \cup {[kind |-> "nan", neg |-> FALSE, digits |-> <<>>, decpt |-> 0]}
  \cup {[kind |-> "inf", neg |-> sg, digits |-> <<>>, decpt |-> 0] : sg \in BOOLEAN}

\* 1000000000000 and 579000000000000000 among them
IntValues ==
  {[n |-> sg * m, e10 |-> k] : sg \in {-1, 1}, m \in 0..MaxInt, k \in 0..MaxPow}
  \cup {[n |-> 1, e10 |-> 12], [n |-> 579, e10 |-> 15]}

DateValues ==
  [year : {1900, 2024, 2025}, month : {1, 6, 12}, day : {1, 28}]

TimeValues ==
  [hour : {0, 23}, minute : {0, 59}, second : {0, 19}, microsecond : {0, 500}]

Cells ==
  {[type |-> "NoneType", is_date |-> f] : f \in BOOLEAN}
  \cup {[type |-> "str", is_date |-> f, s |-> s] : f \in BOOLEAN, s \in TextValues}
  \cup {[type |-> "bool", is_date |-> f, b |-> b] : f \in BOOLEAN, b \in BOOLEAN}
  \cup {[type |-> "int", is_date |-> f, n |-> v.n, e10 |-> v.e10] :
           f \in BOOLEAN, v \in IntValues}
  \cup {[type |-> "float", is_date |-> f, kind |-> v.kind, neg |-> v.neg,
         digits |-> v.digits, decpt |-> v.decpt] : f \in BOOLEAN, v \in FloatValues}
  \cup {[type |-> "date", is_date |-> f, year |-> d.year, month |-> d.month,
         day |-> d.day] : f \in BOOLEAN, d \in DateValues}
  \cup {[type |-> "datetime", is_date |-> f, year |-> d.year, month |-> d.month,
         day |-> d.day, hour |-> t.hour, minute |-> t.minute, second |-> t.second,
         microsecond |-> t.microsecond] :
           f \in BOOLEAN, d \in DateValues, t \in TimeValues}
  \cup {[type |-> "time", is_date |-> f, hour |-> t.hour, minute |-> t.minute,
         second |-> t.second, microsecond |-> t.microsecond] :
           f \in BOOLEAN, t \in TimeValues}

(***************************************************************************)
(* The pipeline on one cell: normalise, sanitise, sanitise again.          *)
(***************************************************************************)
NoFile == <<>>

MainIdle ==
  /\ pc = "idle" /\ input_path = NoFile /\ output_name = NoFile
  /\ output_path = NoFile /\ overwrite = <<>> /\ confirm = <<>> /\ another = <<>>
  /\ files = {} /\ sheet = <<>> /\ content = <<>> /\ rows_written = 0
  /\ rows_count = <<>> /\ reports = <<>> /\ starts = 0 /\ opens = 0 /\ depth = 0

InitCell ==
  /\ cell \in Cells
  /\ raw = <<>> /\ cleaned = <<>> /\ again = <<>>
  /\ stage = "cell"
  /\ MainIdle

Normalize ==
  /\ stage = "cell"
  /\ raw' = to_plain_string(cell)
  /\ stage' = "raw"
  /\ UNCHANGED <<cell, cleaned, again, mainVars>>

Sanitize ==
  /\ stage = "raw"
  /\ cleaned' = trim_text(raw)
  /\ stage' = "cleaned"
  /\ UNCHANGED <<cell, raw, again, mainVars>>

Resanitize ==
  /\ stage = "cleaned"
  /\ again' = trim_text(cleaned)
  /\ stage' = "again"
  /\ UNCHANGED <<cell, raw, cleaned, mainVars>>

NextCell == Normalize \/ Sanitize \/ Resanitize

SpecCell == InitCell /\ [][NextCell]_vars

(***************************************************************************)
(* The interactive program: main, get_output_filename and                  *)
(* convert_xlsx_to_csv.                                                    *)
(*   pc            where main is                                           *)
(*   files         the paths os.path.exists() finds                        *)
(*   sheet         the rows the workbook's active sheet yields             *)
(*   content       the records in the output file of this main's conversion*)
(*   rows_count    <<n>> once convert_xlsx_to_csv returned n, <<>> before  *)
(*   reports       what main printed about each conversion                 *)
(*   starts, opens the calls of convert_xlsx_to_csv and of open(.., "w")   *)
(*   depth         the nesting of main() inside main()                     *)
(***************************************************************************)
CSV == <<".", "c", "s", "v">>

D_B_XLSX == <<"d", "/", "b", ".", "x", "l", "s", "x">>

GONE_XLSX == <<"g", ".", "x", "l", "s", "x">>

B_CSV == <<"b", ".", "c", "s", "v">>

\* what the file dialog may return; the empty name is a cancelled dialog
InputChoices == {NoFile, D_B_XLSX, GONE_XLSX}

\* what the user may type as output name
NameInputs ==
  { <<>>, <<" ">>, <<" ", "o", " ">>, <<"o", ".", "C", "S", "V">> }

\* what the user may answer to a y/n question
Answers == { <<"y">>, <<"Y", "E", "S">>, <<"n">>, <<"y", " ">> }

Yes == { <<"y">>, <<"y", "e", "s">> }

\* Path(p).stem: the last component without its last suffix
stem(p) ==
  LET slashes == {i \in 1..Len(p) : p[i] = "/"}
      cut == IF slashes = {} THEN 0 ELSE CHOOSE i \in slashes : \A j \in slashes : j <= i
      name == SubSeq(p, cut + 1, Len(p))
      dots == {i \in 1..Len(name) : name[i] = "."}
      dot == IF dots = {} THEN 0 ELSE CHOOSE i \in dots : \A j \in dots : j <= i
  IN IF 1 < dot /\ dot < Len(name) THEN SubSeq(name, 1, dot - 1) ELSE name

\* the name one turn of get_output_filename's loop arrives at
chosen_name(default_output, typed) ==
  LET stripped == Strip(typed)
      named == IF stripped = <<>> THEN default_output ELSE stripped
  IN IF ~EndsWith(Lower(named), CSV) THEN named \o CSV ELSE named

CafeCell ==
  [type |-> "str", is_date |-> FALSE, s |-> <<" ", "C", "a", "f", "EACUTE", "ZWSP", " ">>]

DateCell == [type |-> "date", is_date |-> TRUE, year |-> 2024, month |-> 1, day |-> 1]

IntCell == [type |-> "int", is_date |-> FALSE, n |-> 1, e10 |-> 12]

SheetCells == {CafeCell, DateCell}

\* a sheet of three rows and two columns with a text, a date and an integer
ExampleSheet == << <<CafeCell, DateCell>>, <<IntCell, CafeCell>>, <<DateCell, IntCell>> >>

NaNCell ==
  [type |-> "float", is_date |-> FALSE, kind |-> "nan", neg |-> FALSE,
   digits |-> <<>>, decpt |-> 0]

InfCell(sg) ==
  [type |-> "float", is_date |-> FALSE, kind |-> "inf", neg |-> sg,
   digits |-> <<>>, decpt |-> 0]

\* a sheet with non-finite numbers followed by further cells and rows
NonFiniteSheet == << <<NaNCell, CafeCell>>, <<InfCell(FALSE), InfCell(TRUE)>>, <<IntCell>> >>

Sheets == Text(Text(SheetCells, MaxCols), MaxRows) \cup {ExampleSheet, NonFiniteSheet}

Init ==
  /\ cell = <<>> /\ raw = <<>> /\ cleaned = <<>> /\ again = <<>> /\ stage = "idle"
  /\ pc = "select"
  /\ input_path = NoFile /\ output_name = NoFile /\ output_path = NoFile
  /\ overwrite = <<>> /\ confirm = <<>> /\ another = <<>>
  /\ files = {D_B_XLSX, B_CSV}
  /\ sheet = <<>> /\ content = <<>> /\ rows_written = 0 /\ rows_count = <<>>
  /\ reports = <<>> /\ starts = 0 /\ opens = 0 /\ depth = 0

\* main: select_input_file and the two early returns
SelectInput ==
  /\ pc = "select"
  /\ \E choice \in InputChoices :
       /\ input_path' = choice
       /\ IF choice = NoFile
          THEN pc' = "returned" /\ reports' = Append(reports, "no file")
          ELSE IF choice \notin files
          THEN pc' = "returned" /\ reports' = Append(reports, "not found")
          ELSE pc' = "ask_name" /\ reports' = reports
  /\ another' = <<>>
  /\ UNCHANGED <<cellVars, output_name, output_path, overwrite, confirm,
                 files, sheet, content, rows_written, rows_count, starts,
                 opens, depth>>

\* a slip: the loop left whatever the answer to the overwrite question
AskName_any_answer ==
  /\ pc = "ask_name"
  /\ \E typed \in NameInputs, answer \in Answers :
       LET name == chosen_name(stem(input_path) \o CSV, typed)
       IN /\ output_name' = name
          /\ overwrite' = IF name \in files THEN <<Lower(answer)>> ELSE <<>>
          /\ pc' = "confirm" /\ output_path' = name
  /\ UNCHANGED <<cellVars, input_path, confirm, another, files, sheet, content,
                 rows_written, rows_count, reports, starts, opens, depth>>

\* get_output_filename: one turn of its loop
AskName ==
  /\ pc = "ask_name"
  /\ \E typed \in NameInputs, answer \in Answers :
       LET name == chosen_name(stem(input_path) \o CSV, typed)
       IN /\ output_name' = name
          /\ IF name \in files
             THEN /\ overwrite' = <<Lower(answer)>>
                  /\ IF Lower(answer) \in Yes
                     THEN pc' = "confirm" /\ output_path' = name
                     ELSE pc' = "ask_name" /\ output_path' = output_path
             ELSE /\ overwrite' = <<>>
                  /\ pc' = "confirm" /\ output_path' = name
  /\ UNCHANGED <<cellVars, input_path, confirm, another, files, sheet, content,
                 rows_written, rows_count, reports, starts, opens, depth>>

\* a slip: the conversion started whatever the answer
Confirm_any_answer ==
  /\ pc = "confirm"
  /\ output_name' = NoFile /\ overwrite' = <<>>
  /\ \E answer \in Answers :
       /\ confirm' = <<Lower(answer)>>
       /\ pc' = "load" /\ starts' = starts + 1 /\ reports' = reports
  /\ UNCHANGED <<cellVars, input_path, output_path,
                 another, files, sheet, content, rows_written, rows_count,
                 opens, depth>>

\* main: the confirmation question (get_output_filename has returned: its
\* locals output_name and overwrite are gone)
Confirm ==
  /\ pc = "confirm"
  /\ output_name' = NoFile /\ overwrite' = <<>>
  /\ \E answer \in Answers :
       /\ confirm' = <<Lower(answer)>>
       /\ IF Lower(answer) \in Yes
          THEN pc' = "load" /\ starts' = starts + 1 /\ reports' = reports
          ELSE pc' = "returned" /\ starts' = starts
               /\ reports' = Append(reports, "cancelled")
  /\ UNCHANGED <<cellVars, input_path, output_path,
                 another, files, sheet, content, rows_written, rows_count,
                 opens, depth>>

\* convert_xlsx_to_csv: load_workbook succeeds
Load ==
  /\ pc = "load"
  /\ sheet' \in Sheets
  /\ rows_written' = 0
  /\ pc' = "open"
  /\ UNCHANGED <<cellVars, input_path, output_name, output_path, overwrite,
                 confirm, another, files, content, rows_count, reports, starts,
                 opens, depth>>

\* convert_xlsx_to_csv: open(output_path, "w") creates or truncates the file
Open ==
  /\ pc = "open"
  /\ files' = files \cup {output_path}
  /\ content' = <<>>
  /\ opens' = opens + 1
  /\ pc' = "rows"
  /\ UNCHANGED <<cellVars, input_path, output_name, output_path, overwrite,
                 confirm, another, sheet, rows_written, rows_count, reports,
                 starts, depth>>

\* a slip: the cells appended without being sanitised
out_row_raw(row_cells) == [j \in 1..Len(row_cells) |-> to_plain_string(row_cells[j])]

\* the record of one source row
out_row(row_cells) == [j \in 1..Len(row_cells) |-> trim_text(to_plain_string(row_cells[j]))]

\* convert_xlsx_to_csv: one turn of the row loop
WriteRow ==
  /\ pc = "rows"
  /\ rows_written < Len(sheet)
  /\ content' = Append(content, out_row(sheet[rows_written + 1]))
  /\ rows_written' = rows_written + 1
  /\ UNCHANGED <<cellVars, pc, input_path, output_name, output_path, overwrite,
                 confirm, another, files, sheet, rows_count, reports, starts,
                 opens, depth>>

\* convert_xlsx_to_csv returns rows_written; main prints the success
Return ==
  /\ pc = "rows"
  /\ rows_written = Len(sheet)
  /\ rows_count' = <<rows_written>>
  /\ reports' = Append(reports, "ok")
  /\ pc' = "another"
  /\ UNCHANGED <<cellVars, input_path, output_name, output_path, overwrite,
                 confirm, another, files, sheet, content, rows_written, starts,
                 opens, depth>>

\* convert_xlsx_to_csv: the workbook cannot be read, the output cannot be
\* opened or written: the exception is logged and raised again
Fail ==
  /\ pc \in {"load", "open", "rows"}
  /\ pc' = "raised"
  /\ UNCHANGED <<cellVars, input_path, output_name, output_path, overwrite,
                 confirm, another, files, sheet, content, rows_written,
                 rows_count, reports, starts, opens, depth>>

\* a slip: the failure swallowed, main going on to 'convert another file?'
Except_goes_on ==
  /\ pc = "raised"
  /\ reports' = Append(reports, "failed")
  /\ pc' = "another"
  /\ UNCHANGED <<cellVars, input_path, output_name, output_path, overwrite,
                 confirm, another, files, sheet, content, rows_written,
                 rows_count, starts, opens, depth>>

\* main: except Exception
Except ==
  /\ pc = "raised"
  /\ reports' = Append(reports, "failed")
  /\ pc' = "returned"
  /\ UNCHANGED <<cellVars, input_path, output_name, output_path, overwrite,
                 confirm, another, files, sheet, content, rows_written,
                 rows_count, starts, opens, depth>>

\* main: 'convert another file?'; "y"/"yes" calls main() again, whose frame
\* starts with fresh locals, and the outer main returns when it returns
Another ==
  /\ pc = "another"
  /\ \E answer \in Answers :
       /\ depth < MaxDepth \/ Lower(answer) \notin Yes
       /\ another' = <<Lower(answer)>>
       /\ IF Lower(answer) \in Yes
          THEN /\ pc' = "select" /\ depth' = depth + 1
               /\ input_path' = NoFile /\ output_path' = NoFile
               /\ confirm' = <<>> /\ rows_count' = <<>>
               /\ sheet' = <<>> /\ content' = <<>> /\ rows_written' = 0
          ELSE /\ pc' = "returned"
               /\ UNCHANGED <<depth, input_path, output_path, confirm,
                              rows_count, sheet, content, rows_written>>
  /\ UNCHANGED <<cellVars, output_name, overwrite, files, reports, starts, opens>>

Next ==
  \/ SelectInput \/ AskName \/ Confirm
  \/ Load \/ Open \/ WriteRow \/ Return \/ Fail \/ Except
  \/ Another

Spec == Init /\ [][Next]_vars

(***************************************************************************)
(* Properties of the cell pipeline (checked under SpecCell).               *)
(***************************************************************************)
Normalized == stage \in {"raw", "cleaned", "again"}

Sanitized == stage \in {"cleaned", "again"}

TRUE_TEXT == <<"T", "R", "U", "E">>

FALSE_TEXT == <<"F", "A", "L", "S", "E">>

AllDigits(t) == \A i \in 1..Len(t) : IsDigit(t[i])

\* t is DD/MM/YYYY for the date of v
IsDatePattern(t, v) ==
  /\ Len(t) = 10
  /\ t[3] = "/" /\ t[6] = "/"
  /\ AllDigits(SubSeq(t, 1, 2)) /\ NatOf(SubSeq(t, 1, 2)) = v.day
  /\ AllDigits(SubSeq(t, 4, 5)) /\ NatOf(SubSeq(t, 4, 5)) = v.month
  /\ AllDigits(SubSeq(t, 7, 10)) /\ NatOf(SubSeq(t, 7, 10)) = v.year

\* t is DD/MM/YYYY, HH:MM:SS for the date and time of v
IsDateTimePattern(t, v) ==
  /\ Len(t) = 20
  /\ IsDatePattern(SubSeq(t, 1, 10), v)
  /\ t[11] = "," /\ t[12] = " " /\ t[15] = ":" /\ t[18] = ":"
  /\ AllDigits(SubSeq(t, 13, 14)) /\ NatOf(SubSeq(t, 13, 14)) = v.hour
  /\ AllDigits(SubSeq(t, 16, 17)) /\ NatOf(SubSeq(t, 16, 17)) = v.minute
  /\ AllDigits(SubSeq(t, 19, 20)) /\ NatOf(SubSeq(t, 19, 20)) = v.second

\* t is fixed-point decimal text: [-]digits[.digits]
IsFixedPoint(t) ==
  LET body == IF t # <<>> /\ t[1] = "-" THEN Tail(t) ELSE t
      dot == Find(body, {"."})
      ip == IF dot = 0 THEN body ELSE SubSeq(body, 1, dot - 1)
      fp == SubSeq(body, dot + 1, Len(body))
  IN /\ ip # <<>> /\ AllDigits(ip)
     /\ dot # 0 => (fp # <<>> /\ AllDigits(fp))

NoExponent(t) == "e" \notin Range(t) /\ "E" \notin Range(t)

NoTrailingFraction(t) == "." \in Range(t) => t[Len(t)] \notin {"0", "."}

\* the number a fixed-point text denotes: sign, significant digits and the
\* position of the decimal point before them (0.d1..dn x 10^decpt)
NumberOfText(t) ==
  LET neg == t[1] = "-"
      body == IF neg THEN Tail(t) ELSE t
      dot == Find(body, {"."})
      ip == IF dot = 0 THEN body ELSE SubSeq(body, 1, dot - 1)
      fp == IF dot = 0 THEN <<>> ELSE SubSeq(body, dot + 1, Len(body))
      all == ip \o fp
      lead == Len(all) - Len(LStripSet(all, {"0"}))
      sig == RStripSet(LStripSet(all, {"0"}), {"0"})
  IN IF sig = <<>> THEN [neg |-> neg, digits |-> <<>>, decpt |-> 0]
     ELSE [neg |-> neg, digits |-> sig, decpt |-> Len(ip) - lead]

\* the number a numeric cell holds, in the same form
NumberOfCell(c) ==
  IF c.type = "int"
  THEN IF c.n = 0 THEN [neg |-> FALSE, digits |-> <<>>, decpt |-> 0]
       ELSE LET ds == DigitsOf(IF c.n < 0 THEN -c.n ELSE c.n)
            IN [neg |-> c.n < 0, digits |-> RStripSet(ds, {"0"}),
                decpt |-> Len(ds) + c.e10]
  ELSE IF c.digits = <<0>> THEN [neg |-> c.neg, digits |-> <<>>, decpt |-> 0]
  ELSE [neg |-> c.neg, digits |-> [i \in 1..Len(c.digits) |-> DigitChars[c.digits[i] + 1]],
        decpt |-> c.decpt]

IsNumber(c) == c.type \in {"int", "float"}

IsFinite(c) == c.type = "int" \/ (c.type = "float" /\ c.kind = "finite")

NonFiniteTexts ==
  { <<"N", "a", "N">>, <<"I", "n", "f", "i", "n", "i", "t", "y">>,
    <<"-", "I", "n", "f", "i", "n", "i", "t", "y">> }

\* C1: an absent value gives the empty string and a text value is returned
\* unchanged, whatever the date flag; a boolean gives exactly "TRUE" or "FALSE"
\* and never the text of the numeric branch or of the default conversion.
C1_DispatchOrder ==
  Normalized =>
    /\ cell.type = "NoneType" => raw = <<>>
    /\ cell.type = "str" => raw = cell.s
    /\ cell.type = "bool" =>
         /\ raw = IF cell.b THEN TRUE_TEXT ELSE FALSE_TEXT
         /\ raw \notin {<<"1">>, <<"0">>, <<"T", "r", "u", "e">>, <<"F", "a", "l", "s", "e">>}

C1_Witness ==
  /\ stage = "raw" /\ cell.type = "bool" /\ cell.b /\ cell.is_date
  /\ raw = TRUE_TEXT

\* C2: a date or date-time with the date flag renders as DD/MM/YYYY, HH:MM:SS
\* (date-time) or DD/MM/YYYY (date only); without the flag neither pattern is
\* used and the text is the default conversion YYYY-MM-DD[ HH:MM:SS[.ffffff]].
C2_DatePatterns ==
  (Normalized /\ cell.type \in {"date", "datetime"}) =>
    IF cell.is_date
    THEN IF cell.type = "datetime"
         THEN IsDateTimePattern(raw, cell) /\ ~IsDatePattern(raw, cell)
         ELSE IsDatePattern(raw, cell)
    ELSE /\ ~IsDatePattern(raw, cell) /\ ~IsDateTimePattern(raw, cell)
         /\ raw = str(cell)
         /\ raw[5] = "-" /\ raw[8] = "-"
         /\ NatOf(SubSeq(raw, 1, 4)) = cell.year
         /\ cell.type = "datetime" => (Len(raw) \in {19, 26} /\ raw[11] = " ")
         /\ cell.type = "date" => Len(raw) = 10

C2_Witness ==
  /\ stage = "raw" /\ cell.type = "datetime" /\ cell.is_date
  /\ raw = <<"0", "1", "/", "0", "6", "/", "2", "0", "2", "5", ",", " ",
             "0", "0", ":", "0", "0", ":", "1", "9">>

\* C3 as stated: every integer or floating-point value gives fixed-point
\* decimal text, without exponent, without trailing fractional zeros or
\* point, denoting the value itself (integral zeros kept).
C3_AsStated ==
  (Normalized /\ IsNumber(cell)) =>
    /\ IsFixedPoint(raw)
    /\ NoExponent(raw) /\ NoTrailingFraction(raw)
    /\ NumberOfText(raw) = NumberOfCell(cell)

\* C3 amended: the above for every integer and every finite float; a
\* non-finite float gives "NaN", "Infinity" or "-Infinity", which holds no
\* exponent and no fraction but is no fixed-point text.
C3_FixedPoint ==
  (Normalized /\ IsNumber(cell)) =>
    /\ NoExponent(raw) /\ NoTrailingFraction(raw)
    /\ IsFinite(cell) => (IsFixedPoint(raw) /\ NumberOfText(raw) = NumberOfCell(cell))
    /\ ~IsFinite(cell) => (raw \in NonFiniteTexts /\ ~IsFixedPoint(raw))

C3_Witness ==
  /\ stage = "raw" /\ cell.type = "float" /\ cell.kind = "finite"
  /\ cell.digits = <<5, 7, 9>> /\ cell.decpt = 18 /\ ~cell.neg
  /\ str(cell) = <<"5", ".", "7", "9", "e", "+", "1", "7">>
  /\ raw = <<"5", "7", "9">> \o Zeros(15)

\* the text with the zero-width characters deleted and NBSP made a space
RECURSIVE Visible(_)
Visible(s) ==
  IF s = <<>> THEN <<>>
  ELSE (IF Head(s) \in {"ZWSP", "ZWNJ", "ZWJ", "BOM"} THEN <<>>
        ELSE IF Head(s) = "NBSP" THEN <<" ">> ELSE <<Head(s)>>)
       \o Visible(Tail(s))

\* C4: trim_text(s) holds no NBSP and no zero-width character, has no
\* leading or trailing whitespace, is empty for an empty or NBSP-only s, and
\* is s's visible text less a whitespace prefix and a whitespace suffix.
C4_TrimText ==
  Sanitized =>
    /\ Range(cleaned) \cap {"NBSP", "ZWSP", "ZWNJ", "ZWJ", "BOM"} = {}
    /\ cleaned # <<>> =>
         (cleaned[1] \notin Whitespace /\ cleaned[Len(cleaned)] \notin Whitespace)
    /\ Range(raw) \subseteq {"NBSP"} => cleaned = <<>>
    /\ LET m == Visible(raw)
       IN \E i \in 1..(Len(m) + 1), j \in 0..Len(m) :
            /\ cleaned = SubSeq(m, i, j)
            /\ \A k \in 1..(i - 1) : m[k] \in Whitespace
            /\ \A k \in (j + 1)..Len(m) : m[k] \in Whitespace

C4_Witness ==
  /\ stage = "cleaned"
  /\ raw = <<" ", "NBSP", "h", "e", "l", "l", "o", "ZWSP", " ", "NBSP">>
  /\ cleaned = <<"h", "e", "l", "l", "o">>

\* C5: sanitising the sanitised text changes nothing, and for number,
\* boolean and flagged date cells the first sanitising changes nothing either.
C5_Idempotent ==
  /\ stage = "again" => again = cleaned
  /\ (Sanitized /\ ( \/ cell.type \in {"int", "float", "bool"}
                     \/ (cell.is_date /\ cell.type \in {"date", "datetime"}) ))
       => cleaned = raw

C5_Witness ==
  /\ stage = "again" /\ cell.type = "str"
  /\ cell.s = <<"a", "NBSP", "ZWJ", "a", "LF">>
  /\ cleaned = <<"a", " ", "a">> /\ again = cleaned

(***************************************************************************)
(* Properties of the program (checked under Spec).                         *)
(***************************************************************************)
Last(q) == q[Len(q)]

CAFE == <<"C", "a", "f", "EACUTE">>

JAN_1_2024 == <<"0", "1", "/", "0", "1", "/", "2", "0", "2", "4">>

TEN_POW_12 == <<"1">> \o Zeros(12)

\* C6: the records written so far are the sanitised-normalised images of the
\* first rows_written source rows, field by field and in order; nothing else
\* is in the file; the count returned is the number of source rows.
C6_RowsInOrder ==
  /\ Len(content) = rows_written
  /\ rows_written <= Len(sheet)
  /\ \A i \in 1..Len(content) :
       /\ Len(content[i]) = Len(sheet[i])
       /\ \A j \in 1..Len(sheet[i]) :
            content[i][j] = trim_text(to_plain_string(sheet[i][j]))
  /\ rows_count # <<>> =>
       (rows_count[1] = Len(sheet) /\ Len(content) = Len(sheet))
  /\ (sheet = ExampleSheet /\ rows_count # <<>>) =>
       content = << <<CAFE, JAN_1_2024>>, <<TEN_POW_12, CAFE>>,
                    <<JAN_1_2024, TEN_POW_12>> >>

C6_Witness ==
  /\ pc = "another" /\ sheet = ExampleSheet /\ rows_count = <<3>>
  /\ content[2] = <<TEN_POW_12, CAFE>>

IsNonFinite(c) == c.type = "float" /\ c.kind \in {"nan", "inf"}

\* C7 as stated: a non-finite number is written in its default textual form
\* str(v), and the rows and cells after it are converted.
C7_AsStated ==
  \A i \in 1..Len(content) : \A j \in 1..Len(content[i]) :
    IsNonFinite(sheet[i][j]) => content[i][j] = trim_text(str(sheet[i][j]))

\* C7 amended: the exact-decimal conversion of a non-finite number succeeds;
\* the cell is written as "NaN", "Infinity" or "-Infinity" (not str(v):
\* "nan", "inf", "-inf"), the fallback is not taken, and the rows and cells
\* after it are converted.
C7_NonFinite ==
  /\ \A i \in 1..Len(content) :
       /\ Len(content[i]) = Len(sheet[i])
       /\ \A j \in 1..Len(content[i]) :
            IsNonFinite(sheet[i][j]) =>
              /\ Decimal(str(sheet[i][j])).kind \in {"NaN", "Infinity"}
              /\ content[i][j] =
                   IF sheet[i][j].kind = "nan" THEN <<"N", "a", "N">>
                   ELSE (IF sheet[i][j].neg THEN <<"-">> ELSE <<>>)
                        \o <<"I", "n", "f", "i", "n", "i", "t", "y">>
              /\ content[i][j] # str(sheet[i][j])
  /\ pc = "another" => (Len(content) = Len(sheet) /\ Last(reports) = "ok")

C7_Witness ==
  /\ pc = "another" /\ sheet = NonFiniteSheet /\ rows_count = <<3>>
  /\ content = << <<<<"N", "a", "N">>, CAFE>>,
                  << <<"I", "n", "f", "i", "n", "i", "t", "y">>,
                     <<"-", "I", "n", "f", "i", "n", "i", "t", "y">> >>,
                  <<TEN_POW_12>> >>

\* C8: once a read or write failure is raised no count is returned, main
\* reports the failure and returns: no success is reported for the run, the
\* conversion is not started again, 'convert another file?' is not asked, and
\* the rows already written stay in the file.
C8_FailureIsFatal ==
  /\ Len(reports) <= depth + 1
  /\ pc = "raised" =>
       /\ rows_count = <<>> /\ another = <<>>
       /\ Len(reports) = depth /\ starts = depth + 1
       /\ Len(content) = rows_written
  /\ (reports # <<>> /\ Last(reports) = "failed") =>
       /\ pc = "returned"
       /\ rows_count = <<>> /\ another = <<>>
       /\ Len(reports) = depth + 1 /\ starts = depth + 1
       /\ \A i \in 1..depth : reports[i] = "ok"
       /\ Len(content) = rows_written
       /\ opens = depth + 1 => output_path \in files

C8_Witness ==
  /\ pc = "returned" /\ Last(reports) = "failed"
  /\ rows_written = 1 /\ Len(sheet) = 2 /\ Len(content) = 1
  /\ rows_count = <<>>

O_CSV == <<"o", ".", "c", "s", "v">>

O_CSV_UPPER == <<"o", ".", "C", "S", "V">>

\* C9: get_output_filename returns a name that ends with ".csv" in any
\* letter case (the default <stem>.csv for an empty entry, ".csv" appended to
\* a name without it) and that either does not exist or whose overwrite
\* question was answered "y"/"yes"; any other answer leads back to the prompt.
C9_OutputName ==
  /\ pc = "confirm" =>
       /\ output_path = output_name
       /\ EndsWith(Lower(output_path), CSV)
       /\ output_path \in {B_CSV, O_CSV, O_CSV_UPPER}
       /\ output_path \notin files \/ overwrite \in {<<x>> : x \in Yes}
       /\ output_path \notin files => overwrite = <<>>
  /\ pc = "ask_name" =>
       /\ output_path = NoFile
       /\ overwrite # <<>> => (overwrite[1] \notin Yes /\ output_name \in files)

C9_Witness ==
  /\ pc = "confirm" /\ input_path = D_B_XLSX
  /\ output_path = B_CSV /\ B_CSV \in files
  /\ overwrite = << <<"y", "e", "s">> >>

ConvertStarted == pc \in {"load", "open", "rows", "raised", "another"}

\* C10: the conversion runs only with a selected, existing input file, an
\* output name and a "y"/"yes" confirmation; a cancelled dialog, a missing
\* input or another answer end main with no output file opened or written; a
\* further conversion needs a successful one and "y"/"yes" to 'another file?'.
C10_MainOrder ==
  /\ starts <= depth + 1 /\ opens <= starts
  /\ \A i \in 1..depth : reports[i] = "ok"
  /\ ConvertStarted =>
       /\ input_path # NoFile /\ input_path \in files
       /\ output_path # NoFile /\ EndsWith(Lower(output_path), CSV)
       /\ confirm \in {<<x>> : x \in Yes}
       /\ starts = depth + 1
  /\ pc \in {"select", "ask_name", "confirm"} =>
       (starts = depth /\ opens = depth /\ content = <<>>)
  /\ (pc = "returned" /\ Last(reports) \in {"no file", "not found", "cancelled"}) =>
       /\ starts = depth /\ opens = depth /\ content = <<>>
       /\ Last(reports) = "no file" <=> input_path = NoFile
       /\ Last(reports) = "not found" <=> (input_path # NoFile /\ input_path \notin files)
       /\ Last(reports) = "cancelled" <=> (confirm # <<>> /\ confirm[1] \notin Yes)
  /\ (depth > 0 /\ pc = "select") => another \in {<<x>> : x \in Yes}
  /\ pc = "open" => opens = depth

C10_Witness ==
  /\ depth = 1 /\ pc = "open" /\ starts = 2 /\ opens = 1
  /\ reports = <<"ok">> /\ input_path = D_B_XLSX
  /\ confirm = << <<"y">> >>
====
